---- MODULE Spec2Model ----
(***************************************************************************)
(* Property Q&A system: the RAG orchestrator (services/rag_service), the   *)
(* embedding index (services/vector_database), the listing store           *)
(* (services/web_scraper) and the mocked transcription and response        *)
(* services, modelled as one state machine.                                *)
(*                                                                         *)
(* Every outbound HTTP call of the orchestrator is one step: the callee's  *)
(* handler runs atomically on the callee's current state, the environment  *)
(* chooses whether the call answers ("ok"), answers with a non-success     *)
(* status ("http_error") or raises in the client ("net_error": connection  *)
(* refused, timeout), and the orchestrator's code up to its next await     *)
(* runs in the same step.                                                  *)
(*                                                                         *)
(* Floats are fixed-point hundredths (0.95 is 95).                         *)
(***************************************************************************)
EXTENDS Integers, Sequences, FiniteSets, TLC

VARIABLES
    \* services/web_scraper: the properties table
    properties_db,
    \* services/vector_database: the module-level model and the
    \* property_embeddings table, and the last response the service gave to a
    \* direct client
    model_loaded, embeddings, index_response,
    \* services/rag_service: one request in flight (the service keeps no state
    \* between requests), its locals and its outcome
    pc, request, properties, search_results, matching_properties, context,
    llm_result, similar_properties, sim_i, voice, calls, response,
    \* services/rag_service health_check: its locals
    health_pc, health_i, probe, service_status, probe_log

vars == <<properties_db, model_loaded, embeddings, index_response,
          pc, request, properties, search_results, matching_properties, context,
          llm_result, similar_properties, sim_i, voice, calls, response,
          health_pc, health_i, probe, service_status, probe_log>>

store_vars == <<properties_db>>
index_vars == <<model_loaded, embeddings>>
rag_vars == <<pc, request, properties, search_results, matching_properties, context,
              llm_result, similar_properties, sim_i, voice, calls, response>>
health_vars == <<health_pc, health_i, probe, service_status, probe_log>>

-----------------------------------------------------------------------------
(* Bounds *)

\* listings the store holds at most
MaxListings == 4
\* embedding records a direct client of the index creates at most
MaxEmbeddings == 3
\* largest limit a direct client of the index asks for
MaxLimit == 3

-----------------------------------------------------------------------------
(* Texts and the embedding model *)

VillaTitle == "Luxurious 3BR Villa in Dubai Hills"
ApartmentTitle == "Modern 2BR Apartment in Downtown Dubai"
VillaQuery == "Show me 3-bedroom villas in Dubai under AED 2 million with swimming pool"
StudioQuery == "I need a studio apartment in Dubai Marina under 800k"

\* the titles scrape_property chooses from
MockTitles == {VillaTitle, ApartmentTitle}
\* the query texts of the model: two of the transcriber's canned phrases
Queries == {VillaQuery, StudioQuery}

\* SentenceTransformer.encode: a fixed, deterministic map from text to a
\* non-zero vector (here of dimension 2, integer components)
Encode(text) ==
    CASE text = VillaTitle -> <<3, 1>>
      [] text = ApartmentTitle -> <<1, 3>>
      [] text = VillaQuery -> <<2, 1>>
      [] text = StudioQuery -> <<-1, 2>>
      [] OTHER -> <<1, 1>>

Dot(a, b) == a[1] * b[1] + a[2] * b[2]

Scale == 100

\* the largest s in 0..Scale with (s/Scale)^2 <= num/den, for 0 <= num <= den
FracRoot(num, den) ==
    CHOOSE s \in 0..Scale :
        /\ s * s * den <= Scale * Scale * num
        /\ s = Scale \/ (s + 1) * (s + 1) * den > Scale * Scale * num

\* np.dot(a, b) / (norm(a) * norm(b)), in hundredths, truncated toward zero
CosineOf(a, b) ==
    LET d == Dot(a, b)
        r == FracRoot(d * d, Dot(a, a) * Dot(b, b))
    IN  IF d >= 0 THEN r ELSE 0 - r

\* the vectors the model produces
Vectors == {Encode(text) : text \in MockTitles \cup Queries}

\* cosine_similarity tabulated over the vectors the model produces
CosineTable == [a \in Vectors, b \in Vectors |-> CosineOf(a, b)]

cosine_similarity(a, b) == CosineTable[a, b]

-----------------------------------------------------------------------------
(* Python list helpers *)

Min(x, y) == IF x <= y THEN x ELSE y
Max(x, y) == IF x >= y THEN x ELSE y

\* seq[:n] of Python: a negative n counts from the end
PySlice(seq, n) ==
    LET k == IF n >= 0 THEN Min(n, Len(seq)) ELSE Max(Len(seq) + n, 0)
    IN  SubSeq(seq, 1, k)

\* the place of r in a list sorted by descending similarity, behind every entry
\* that does not rank below it
RECURSIVE InsertDesc(_, _)
InsertDesc(sorted, r) ==
    IF sorted = <<>> THEN <<r>>
    ELSE IF Head(sorted).similarity >= r.similarity
         THEN <<Head(sorted)>> \o InsertDesc(Tail(sorted), r)
         ELSE <<r>> \o sorted

\* the place of r in a list sorted by ascending similarity
RECURSIVE InsertAsc(_, _)
InsertAsc(sorted, r) ==
    IF sorted = <<>> THEN <<r>>
    ELSE IF Head(sorted).similarity <= r.similarity
         THEN <<Head(sorted)>> \o InsertAsc(Tail(sorted), r)
         ELSE <<r>> \o sorted

\* the sort without reverse=True
RECURSIVE SortAscending(_)
SortAscending(results) ==
    IF results = <<>> THEN <<>>
    ELSE InsertAsc(SortAscending(SubSeq(results, 1, Len(results) - 1)),
                   results[Len(results)])

\* results.sort(key=lambda x: x.similarity, reverse=True): stable, equal keys
\* keep their scan order
RECURSIVE SortBySimilarity(_)
SortBySimilarity(results) ==
    IF results = <<>> THEN <<>>
    ELSE InsertDesc(SortBySimilarity(SubSeq(results, 1, Len(results) - 1)),
                    results[Len(results)])

-----------------------------------------------------------------------------
(* services/vector_database *)

\* the property_embeddings table is append-only (no update or delete in the
\* source), so a table scan (.all(), .first()) yields the rows in insertion
\* order; the row's embedding column holds the encoded vector

SearchResult(property_id, text, similarity) ==
    [property_id |-> property_id, text |-> text, similarity |-> similarity]

\* the fixed result set of search_properties when the model is not loaded
search_mock_results ==
    << SearchResult(1, "3-bedroom villa with swimming pool", 95),
       SearchResult(2, "Luxury apartment in Downtown Dubai", 87),
       SearchResult(3, "Modern villa in Dubai Hills Estate", 82) >>

\* the fixed result set of find_similar_properties when the model is not loaded
similarity_mock_results ==
    << SearchResult(2, "Similar luxury property", 89),
       SearchResult(3, "Comparable villa", 84) >>

\* one SearchResult per row of embs, scored against the vector ref
RECURSIVE ScoreAll(_, _)
ScoreAll(embs, ref) ==
    IF embs = <<>> THEN <<>>
    ELSE <<SearchResult(Head(embs).property_id, Head(embs).text,
                        cosine_similarity(ref, Head(embs).embedding))>>
         \o ScoreAll(Tail(embs), ref)

\* filter(PropertyEmbedding.property_id == property_id)
RECURSIVE RowsOf(_, _)
RowsOf(embs, property_id) ==
    IF embs = <<>> THEN <<>>
    ELSE IF Head(embs).property_id = property_id
         THEN <<Head(embs)>> \o RowsOf(Tail(embs), property_id)
         ELSE RowsOf(Tail(embs), property_id)

\* filter(PropertyEmbedding.property_id != property_id)
RECURSIVE RowsNotOf(_, _)
RowsNotOf(embs, property_id) ==
    IF embs = <<>> THEN <<>>
    ELSE IF Head(embs).property_id # property_id
         THEN <<Head(embs)>> \o RowsNotOf(Tail(embs), property_id)
         ELSE RowsNotOf(Tail(embs), property_id)

\* POST /embed: the row it adds
NewEmbedding(property_id, text) ==
    [id |-> Len(embeddings) + 1, property_id |-> property_id, text |-> text,
     embedding |-> Encode(text)]

\* POST /embed: the response
create_embedding_response(property_id, text) ==
    IF ~model_loaded
    THEN [status |-> 503, body |-> <<>>]
    ELSE [status |-> 200,
          body |-> <<[property_id |-> property_id,
                      embedding_id |-> Len(embeddings) + 1,
                      vector_size |-> Len(Encode(text))]>>]

\* the table after an embed that does not look at the model
CreateEmbeddingUnchecked(property_id, text) ==
    Append(embeddings, NewEmbedding(property_id, text))

\* POST /embed: the table afterwards
create_embedding_table(property_id, text) ==
    IF ~model_loaded THEN embeddings
    ELSE Append(embeddings, NewEmbedding(property_id, text))

\* a search that fails like /embed when the model is not loaded
SearchFailsWithoutModel(query, limit) ==
    IF ~model_loaded
    THEN [status |-> 503, body |-> <<>>]
    ELSE [status |-> 200,
          body |-> PySlice(SortBySimilarity(ScoreAll(embeddings, Encode(query))),
                           limit)]

\* POST /search: the response
search_properties(query, limit) ==
    IF ~model_loaded
    THEN [status |-> 200, body |-> PySlice(search_mock_results, limit)]
    ELSE [status |-> 200,
          body |-> PySlice(SortBySimilarity(ScoreAll(embeddings, Encode(query))),
                           limit)]

\* a similarity search that falls back before it looks the reference up
FindSimilarFallbackFirst(property_id, limit) ==
    LET refs == RowsOf(embeddings, property_id)
    IN  IF ~model_loaded
        THEN [status |-> 200, body |-> PySlice(similarity_mock_results, limit)]
        ELSE IF refs = <<>>
        THEN [status |-> 404, body |-> <<>>]
        ELSE [status |-> 200,
              body |-> PySlice(
                  SortBySimilarity(ScoreAll(RowsNotOf(embeddings, property_id),
                                            Head(refs).embedding)),
                  limit)]

\* POST /similarity: the response
find_similar_properties(property_id, limit) ==
    LET refs == RowsOf(embeddings, property_id)
    IN  IF refs = <<>>
        THEN [status |-> 404, body |-> <<>>]
        ELSE IF ~model_loaded
        THEN [status |-> 200, body |-> PySlice(similarity_mock_results, limit)]
        ELSE [status |-> 200,
              body |-> PySlice(
                  SortBySimilarity(ScoreAll(RowsNotOf(embeddings, property_id),
                                            Head(refs).embedding)),
                  limit)]

\* the vector_database process starts again: the module-level model load is
\* re-run and may fail or succeed; the table is kept by the database
RestartVectorDatabase ==
    /\ model_loaded' = ~model_loaded
    /\ UNCHANGED <<embeddings, index_response, store_vars, rag_vars, health_vars>>

NoIndexResponse ==
    [op |-> "none", property_id |-> 0, text |-> "", limit |-> 0,
     status |-> 0, body |-> <<>>]

\* the property ids a direct client of the index names: those of the mock results
PropertyIds == {1, 2, 3}
\* the limits a direct client of the index asks for
Limits == -1..MaxLimit

\* a client posts /embed
EmbedCall(property_id, text) ==
    /\ Len(embeddings) < MaxEmbeddings
    /\ embeddings' = create_embedding_table(property_id, text)
    /\ index_response' =
          LET r == create_embedding_response(property_id, text) IN
          [op |-> "embed", property_id |-> property_id, text |-> text, limit |-> 0,
           status |-> r.status, body |-> r.body]
    /\ UNCHANGED <<model_loaded, store_vars, rag_vars, health_vars>>

\* a client posts /search
SearchCall(query, limit) ==
    /\ index_response' =
          LET r == search_properties(query, limit) IN
          [op |-> "search", property_id |-> 0, text |-> query, limit |-> limit,
           status |-> r.status, body |-> r.body]
    /\ UNCHANGED <<index_vars, store_vars, rag_vars, health_vars>>

\* a client posts /similarity
SimilarityCall(property_id, limit) ==
    /\ index_response' =
          LET r == find_similar_properties(property_id, limit) IN
          [op |-> "similarity", property_id |-> property_id, text |-> "",
           limit |-> limit,
           status |-> r.status, body |-> r.body]
    /\ UNCHANGED <<index_vars, store_vars, rag_vars, health_vars>>

-----------------------------------------------------------------------------
(* services/web_scraper *)

\* POST /scrape: the row it adds; the other columns are fixed by the mock
\* property that random.choice picks, which the title stands for
scrape_property(title) ==
    [id |-> Len(properties_db) + 1, title |-> title]

\* GET /properties
get_all_properties == properties_db

-----------------------------------------------------------------------------
(* services/llm_integration and services/audio_transcription (mocks) *)

VillaAnswer == "Based on your search for 3-bedroom villas, I found several excellent options"
GenericAnswer == "I understand you're looking for properties in Dubai"
Apology == "Sorry, I couldn't process your query at the moment."

\* POST /process-query: the canned text chosen by the query's substrings; of
\* the model's queries only VillaQuery holds "3-bedroom" and "villa", and
\* StudioQuery matches no pattern
process_query(query) ==
    [response |-> IF query = VillaQuery THEN VillaAnswer ELSE GenericAnswer]

\* POST /transcribe-file/{file_id}
transcribe_uploaded_file == [transcription |-> VillaQuery, confidence |-> 92]

\* POST /transcribe: random.choice over the canned phrases
transcribe_audio(phrase) == [transcription |-> phrase, confidence |-> 95]

-----------------------------------------------------------------------------
(* scripts/populate_sample_data: the client that fills the two stores *)

\* the text populate_sample_data embeds for a scraped listing: its title,
\* description, location and type, all fixed by the title
EmbeddingText(prop) == prop.title

\* POST /scrape for the next sample property
Scrape(title) ==
    /\ Len(properties_db) < MaxListings
    /\ properties_db' = Append(properties_db, scrape_property(title))
    /\ UNCHANGED <<index_vars, index_response, rag_vars, health_vars>>

\* POST /embed for the listing just scraped, before the next one is scraped;
\* with the model not loaded the index answers 503 and stores nothing
PopulateEmbed ==
    /\ properties_db # <<>>
    /\ LET prop == properties_db[Len(properties_db)] IN
         /\ RowsOf(embeddings, prop.id) = <<>>
         /\ embeddings' = create_embedding_table(prop.id, EmbeddingText(prop))
    /\ UNCHANGED <<model_loaded, index_response, store_vars, rag_vars, health_vars>>

-----------------------------------------------------------------------------
(* services/rag_service: process_text_query and the voice flows *)

\* the request, transcript and response variables while they hold nothing
NoRequest == [kind |-> "none", query |-> "", include_similar |-> FALSE, max_results |-> 0]
NoVoice == [transcription |-> "", confidence |-> 0]
NoDetail == [prefix |-> "", cause |-> [service |-> "", endpoint |-> "", outcome |-> ""]]
NoResponse == [status |-> 0, query |-> "", answer |-> "", matching_properties |-> <<>>,
               similar_properties |-> <<>>, transcription |-> "", confidence |-> 0,
               detail |-> NoDetail]

\* what an outbound call can come to: a 200 answer of the callee's handler, an
\* answer with another status, or an exception in the client
Outcomes == {"ok", "http_error", "net_error"}

Call(service, endpoint, outcome) ==
    [service |-> service, endpoint |-> endpoint, outcome |-> outcome]

\* the first listing of props with the given id, as a sequence of at most one
RECURSIVE FirstWithId(_, _)
FirstWithId(props, id) ==
    IF props = <<>> THEN <<>>
    ELSE IF Head(props).id = id THEN <<Head(props)>>
         ELSE FirstWithId(Tail(props), id)

\* a join that pairs the i-th result with the i-th listing
RECURSIVE JoinByPosition(_, _)
JoinByPosition(results, props) ==
    IF results = <<>> \/ props = <<>> THEN <<>>
    ELSE <<[id |-> Head(props).id, title |-> Head(props).title,
            similarity_score |-> Head(results).similarity]>>
         \o JoinByPosition(Tail(results), Tail(props))

\* the nested loops of process_text_query: each result is matched with the
\* first listing of its id and takes the result's similarity; a result with no
\* listing adds nothing
RECURSIVE Join(_, _)
Join(results, props) ==
    IF results = <<>> THEN <<>>
    ELSE LET found == FirstWithId(props, Head(results).property_id)
         IN  (IF found = <<>> THEN <<>>
              ELSE <<[id |-> found[1].id, title |-> found[1].title,
                      similarity_score |-> Head(results).similarity]>>)
             \o Join(Tail(results), props)

\* the context entries built beside matching_properties
RECURSIVE ContextOf(_)
ContextOf(matches) ==
    IF matches = <<>> THEN <<>>
    ELSE <<[property_id |-> Head(matches).id, title |-> Head(matches).title]>>
         \o ContextOf(Tail(matches))

\* if request.include_similar and matching_properties
ExpandAlways(req, matches) == matches # <<>>

expand_similar(req, matches) == req.include_similar /\ matches # <<>>

\* a voice step raises when the client raises and when the answer's status is
\* not 200
FailsOnlyOnException(outcome) == outcome = "net_error"

upload_fails(outcome) == outcome # "ok"

transcription_fails(outcome) == outcome # "ok"

\* every match is expanded
AllMatches(matches) == matches

\* matching_properties[:2]
TopMatches(matches) == PySlice(matches, 2)

\* the limit process_text_query passes to /similarity
SimilarLimit == 3
\* the cut of similar_properties in the response
SimilarCap == 5
\* QueryRequest.max_results default
DefaultMaxResults == 5

\* the response with similar_properties left uncut
SuccessResponseUncut(req, v, answer, matches, similar) ==
    [status |-> 200, query |-> IF req.kind = "text" THEN req.query ELSE v.transcription,
     answer |-> answer, matching_properties |-> matches,
     similar_properties |-> IF req.kind = "text" THEN similar ELSE <<>>,
     transcription |-> v.transcription, confidence |-> v.confidence, detail |-> NoDetail]

\* QueryResponse(...) of process_text_query and, in the voice flows, the
\* VoiceQueryResponse built from it
\* a voice response that takes its matches from the wrong field of the text
\* result
SuccessResponseMixedUp(req, v, answer, matches, similar) ==
    IF req.kind = "text"
    THEN [status |-> 200, query |-> req.query, answer |-> answer,
          matching_properties |-> matches,
          similar_properties |-> PySlice(similar, SimilarCap),
          transcription |-> "", confidence |-> 0, detail |-> NoDetail]
    ELSE [status |-> 200, query |-> v.transcription, answer |-> answer,
          matching_properties |-> PySlice(similar, SimilarCap),
          similar_properties |-> <<>>,
          transcription |-> v.transcription, confidence |-> v.confidence,
          detail |-> NoDetail]

SuccessResponse(req, v, answer, matches, similar) ==
    IF req.kind = "text"
    THEN [status |-> 200, query |-> req.query, answer |-> answer,
          matching_properties |-> matches,
          similar_properties |-> PySlice(similar, SimilarCap),
          transcription |-> "", confidence |-> 0, detail |-> NoDetail]
    ELSE [status |-> 200, query |-> v.transcription, answer |-> answer,
          matching_properties |-> matches,
          similar_properties |-> <<>>,
          transcription |-> v.transcription, confidence |-> v.confidence,
          detail |-> NoDetail]

\* a failure that answers 200 with an empty body instead of raising
ErrorResponseSilent(req, cause) ==
    [status |-> 200, query |-> req.query, answer |-> "", matching_properties |-> <<>>,
     similar_properties |-> <<>>, transcription |-> "", confidence |-> 0,
     detail |-> NoDetail]

\* the except clauses: HTTPException(500) whose detail is the flow's prefix
\* followed by str(e); the exception is named by the call that raised it
ErrorResponse(req, cause) ==
    [status |-> 500, query |-> "", answer |-> "", matching_properties |-> <<>>,
     similar_properties |-> <<>>, transcription |-> "", confidence |-> 0,
     detail |-> [prefix |-> IF req.kind = "text" THEN "Error processing query"
                            ELSE "Error processing voice query",
                 cause |-> cause]]

\* an exception raised by the call just made reaches the except clause of the
\* flow
Raise ==
    /\ pc' = "done"
    /\ response' = ErrorResponse(request, calls'[Len(calls')])
    /\ UNCHANGED <<request, properties, search_results, matching_properties, context,
                   llm_result, similar_properties, sim_i, voice>>

\* the locals of a fresh request
Fresh ==
    /\ properties' = <<>>
    /\ search_results' = <<>>
    /\ matching_properties' = <<>>
    /\ context' = <<>>
    /\ llm_result' = ""
    /\ similar_properties' = <<>>
    /\ sim_i' = 0
    /\ calls' = <<>>
    /\ response' = NoResponse

\* POST /query arrives
StartTextQuery(query, include_similar, max_results) ==
    /\ pc = "idle"
    /\ pc' = "get_properties"
    /\ request' = [kind |-> "text", query |-> query,
                   include_similar |-> include_similar, max_results |-> max_results]
    /\ voice' = NoVoice
    /\ Fresh
    /\ UNCHANGED <<store_vars, index_vars, index_response, health_vars>>

\* Step 1: GET /properties
GetProperties(outcome) ==
    /\ pc = "get_properties"
    /\ calls' = Append(calls, Call("web_scraper", "/properties", outcome))
    /\ IF outcome = "net_error" THEN Raise
       ELSE /\ properties' = IF outcome = "ok" THEN get_all_properties ELSE <<>>
            /\ pc' = "search"
            /\ UNCHANGED <<request, search_results, matching_properties, context,
                           llm_result, similar_properties, sim_i, voice, response>>
    /\ UNCHANGED <<store_vars, index_vars, index_response, health_vars>>

\* Steps 2 and 3: POST /search, then the join and the context
Search(outcome) ==
    /\ pc = "search"
    /\ calls' = Append(calls, Call("vector_database", "/search", outcome))
    /\ IF outcome = "net_error" THEN Raise
       ELSE LET results == IF outcome = "ok"
                           THEN search_properties(request.query, request.max_results).body
                           ELSE <<>>
            IN  /\ search_results' = results
                /\ matching_properties' = Join(results, properties)
                /\ context' = ContextOf(Join(results, properties))
                /\ pc' = "llm"
                /\ UNCHANGED <<request, properties, llm_result, similar_properties,
                               sim_i, voice, response>>
    /\ UNCHANGED <<store_vars, index_vars, index_response, health_vars>>

\* return QueryResponse(...)
Return(answer, similar) ==
    /\ pc' = "done"
    /\ response' = SuccessResponse(request, voice, answer, matching_properties, similar)

\* Step 4: POST /process-query; then either the similar loop starts or the
\* response is returned
Llm(outcome) ==
    /\ pc = "llm"
    /\ calls' = Append(calls, Call("llm_integration", "/process-query", outcome))
    /\ IF outcome = "net_error" THEN Raise
       ELSE LET result == IF outcome = "ok" THEN process_query(request.query)
                          ELSE [response |-> Apology]
            IN  /\ llm_result' = result.response
                /\ IF expand_similar(request, matching_properties)
                   THEN /\ pc' = "similar"
                        /\ sim_i' = 1
                        /\ UNCHANGED response
                   ELSE /\ Return(result.response, <<>>)
                        /\ UNCHANGED sim_i
                /\ UNCHANGED <<request, properties, search_results, matching_properties,
                               context, similar_properties, voice>>
    /\ UNCHANGED <<store_vars, index_vars, index_response, health_vars>>

\* Step 5, one turn of the loop: POST /similarity for the match at sim_i
Similar(outcome) ==
    /\ pc = "similar"
    /\ calls' = Append(calls, Call("vector_database", "/similarity", outcome))
    /\ IF outcome = "net_error" THEN Raise
       ELSE LET prop == matching_properties[sim_i]
                r == IF outcome = "ok" THEN find_similar_properties(prop.id, SimilarLimit)
                     ELSE [status |-> 500, body |-> <<>>]
                similar == IF r.status = 200
                           THEN similar_properties \o Join(r.body, properties)
                           ELSE similar_properties
            IN  /\ similar_properties' = similar
                /\ IF sim_i < Len(TopMatches(matching_properties))
                   THEN /\ sim_i' = sim_i + 1
                        /\ UNCHANGED <<pc, response>>
                   ELSE /\ Return(llm_result, similar)
                        /\ UNCHANGED sim_i
                /\ UNCHANGED <<request, properties, search_results, matching_properties,
                               context, llm_result, voice>>
    /\ UNCHANGED <<store_vars, index_vars, index_response, health_vars>>

\* POST /voice-query arrives
StartVoiceQuery ==
    /\ pc = "idle"
    /\ pc' = "upload"
    /\ request' = [kind |-> "voice", query |-> "", include_similar |-> TRUE,
                   max_results |-> DefaultMaxResults]
    /\ voice' = NoVoice
    /\ Fresh
    /\ UNCHANGED <<store_vars, index_vars, index_response, health_vars>>

\* voice Step 1: POST /upload-audio; a status other than 200 raises
Upload(outcome) ==
    /\ pc = "upload"
    /\ calls' = Append(calls, Call("audio_transcription", "/upload-audio", outcome))
    /\ IF upload_fails(outcome) THEN Raise
       ELSE /\ pc' = "transcribe"
            /\ UNCHANGED <<request, properties, search_results, matching_properties,
                           context, llm_result, similar_properties, sim_i, voice,
                           response>>
    /\ UNCHANGED <<store_vars, index_vars, index_response, health_vars>>

\* voice Step 2: POST /transcribe-file/{file_id}; a status other than 200
\* raises, otherwise process_text_query is entered with the transcript
Transcribe(outcome) ==
    /\ pc = "transcribe"
    /\ calls' = Append(calls, Call("audio_transcription", "/transcribe-file", outcome))
    /\ IF transcription_fails(outcome) THEN Raise
       ELSE /\ voice' = transcribe_uploaded_file
            /\ request' = [request EXCEPT !.query = transcribe_uploaded_file.transcription]
            /\ pc' = "get_properties"
            /\ UNCHANGED <<properties, search_results, matching_properties,
                           context, llm_result, similar_properties, sim_i, response>>
    /\ UNCHANGED <<store_vars, index_vars, index_response, health_vars>>

\* POST /voice-query-simple arrives
StartVoiceQuerySimple ==
    /\ pc = "idle"
    /\ pc' = "transcribe_simple"
    /\ request' = [kind |-> "voice_simple", query |-> "", include_similar |-> TRUE,
                   max_results |-> DefaultMaxResults]
    /\ voice' = NoVoice
    /\ Fresh
    /\ UNCHANGED <<store_vars, index_vars, index_response, health_vars>>

\* simple voice Step 1: POST /transcribe
TranscribeSimple(outcome, phrase) ==
    /\ pc = "transcribe_simple"
    /\ calls' = Append(calls, Call("audio_transcription", "/transcribe", outcome))
    /\ IF transcription_fails(outcome) THEN Raise
       ELSE /\ voice' = transcribe_audio(phrase)
            /\ request' = [request EXCEPT !.query = phrase]
            /\ pc' = "get_properties"
            /\ UNCHANGED <<properties, search_results, matching_properties,
                           context, llm_result, similar_properties, sim_i, response>>
    /\ UNCHANGED <<store_vars, index_vars, index_response, health_vars>>

\* the response has been sent and the request's locals are gone
Finish ==
    /\ pc = "done"
    /\ pc' = "idle"
    /\ request' = NoRequest
    /\ voice' = NoVoice
    /\ Fresh
    /\ UNCHANGED <<store_vars, index_vars, index_response, health_vars>>

-----------------------------------------------------------------------------
(* services/rag_service: health_check *)

\* the services dict, in its insertion order
services == <<"web_scraper", "audio_transcription", "vector_database", "llm_integration">>

\* GET /health of each dependency: the JSON its handler returns
dependency_health(service) ==
    CASE service = "web_scraper" ->
            [status |-> "healthy", service |-> "web_scraper", port |-> 8001]
      [] service = "audio_transcription" ->
            [status |-> "healthy", service |-> "audio_transcription", port |-> 8002]
      [] service = "vector_database" ->
            [status |-> "healthy", service |-> "vector_database", port |-> 8003,
             model_loaded |-> model_loaded]
      [] service = "llm_integration" ->
            [status |-> "healthy", service |-> "llm_integration", port |-> 8004]

\* what a probe can come to: the handler's answer, an answer with another
\* status code, or an exception with its text
ProbeOutcomes ==
    {[kind |-> "ok", code |-> 200, text |-> ""],
     [kind |-> "http_error", code |-> 503, text |-> ""],
     [kind |-> "net_error", code |-> 0, text |-> "timed out"],
     [kind |-> "net_error", code |-> 0, text |-> "connection refused"]}

\* the entry the loop body stores for a probe
health_entry(service, outcome) ==
    CASE outcome.kind = "ok" -> dependency_health(service)
      [] outcome.kind = "http_error" ->
            [status |-> "unhealthy", error |-> <<"HTTP", outcome.code>>]
      [] outcome.kind = "net_error" ->
            [status |-> "unreachable", error |-> outcome.text]

\* the loop with the try/except around it instead of inside it: an exception
\* ends the loop
AfterProbeBreaking(i, outcome) ==
    IF i < Len(services) /\ outcome.kind # "net_error" THEN "loop" ELSE "done"

\* where the loop goes after the probe at index i, whatever its outcome: the
\* try/except is inside the loop body
after_probe(i, outcome) == IF i < Len(services) THEN "loop" ELSE "done"

ProbeEvent(ev, service, outcome) == [ev |-> ev, service |-> service, outcome |-> outcome]
NoOutcome == [kind |-> "none", code |-> 0, text |-> ""]

\* GET /health of the orchestrator arrives
StartHealthCheck ==
    /\ health_pc = "idle"
    /\ health_pc' = "loop"
    /\ health_i' = 1
    /\ probe' = "none"
    /\ service_status' = ("rag_service" :> [status |-> "healthy", port |-> 8005])
    /\ probe_log' = <<>>
    /\ UNCHANGED <<store_vars, index_vars, index_response, rag_vars>>

\* the loop reaches client.get for the next service and awaits it
ProbeStart ==
    /\ health_pc = "loop"
    /\ health_pc' = "awaiting"
    /\ probe' = services[health_i]
    /\ probe_log' = Append(probe_log, ProbeEvent("start", services[health_i], NoOutcome))
    /\ UNCHANGED <<health_i, service_status>>
    /\ UNCHANGED <<store_vars, index_vars, index_response, rag_vars>>

\* the awaited probe answers, fails or times out; the entry is stored and the
\* loop goes on
ProbeEnd(outcome) ==
    /\ health_pc = "awaiting"
    /\ service_status' = (probe :> health_entry(probe, outcome)) @@ service_status
    /\ probe_log' = Append(probe_log, ProbeEvent("end", probe, outcome))
    /\ probe' = "none"
    /\ health_pc' = after_probe(health_i, outcome)
    /\ health_i' = health_i + 1
    /\ UNCHANGED <<store_vars, index_vars, index_response, rag_vars>>

\* return service_status: the map has been sent
FinishHealthCheck ==
    /\ health_pc = "done"
    /\ health_pc' = "idle"
    /\ health_i' = 0
    /\ probe' = "none"
    /\ service_status' = <<>>
    /\ probe_log' = <<>>
    /\ UNCHANGED <<store_vars, index_vars, index_response, rag_vars>>

-----------------------------------------------------------------------------
(* Initial states *)

InitStore == properties_db = <<>>

InitIndex ==
    /\ model_loaded \in BOOLEAN
    /\ embeddings = <<>>
    /\ index_response = NoIndexResponse

InitRag ==
    /\ pc = "idle"
    /\ request = NoRequest
    /\ properties = <<>>
    /\ search_results = <<>>
    /\ matching_properties = <<>>
    /\ context = <<>>
    /\ llm_result = ""
    /\ similar_properties = <<>>
    /\ sim_i = 0
    /\ voice = NoVoice
    /\ calls = <<>>
    /\ response = NoResponse

InitHealth ==
    /\ health_pc = "idle"
    /\ health_i = 0
    /\ probe = "none"
    /\ service_status = <<>>
    /\ probe_log = <<>>

Init == InitStore /\ InitIndex /\ InitRag /\ InitHealth

-----------------------------------------------------------------------------
(* The embedding index under its direct clients *)

NextIndex ==
    \/ \E property_id \in PropertyIds, text \in MockTitles : EmbedCall(property_id, text)
    \/ \E query \in Queries, limit \in Limits : SearchCall(query, limit)
    \/ \E property_id \in PropertyIds, limit \in Limits : SimilarityCall(property_id, limit)
    \/ RestartVectorDatabase

SpecIndex == Init /\ [][NextIndex]_vars

-----------------------------------------------------------------------------
(* The orchestrator with its dependencies *)

\* The stores are filled while requests are in flight: a scrape or an embed
\* may fall between any two calls of a request.  At "done" the response is read
\* off and the request leaves (Finish) before anything else happens; the
\* vector database restarts between requests.

\* the max_results a client of /query sends
MaxResultsChoices == {1, DefaultMaxResults}

Next ==
    \/ \E title \in MockTitles : pc # "done" /\ Scrape(title)
    \/ pc # "done" /\ PopulateEmbed
    \/ pc = "idle" /\ RestartVectorDatabase
    \/ \E query \in Queries, include_similar \in BOOLEAN, max_results \in MaxResultsChoices :
          StartTextQuery(query, include_similar, max_results)
    \/ \E outcome \in Outcomes : GetProperties(outcome)
    \/ \E outcome \in Outcomes : Search(outcome)
    \/ \E outcome \in Outcomes : Llm(outcome)
    \/ \E outcome \in Outcomes : Similar(outcome)
    \/ StartVoiceQuery
    \/ \E outcome \in Outcomes : Upload(outcome)
    \/ \E outcome \in Outcomes : Transcribe(outcome)
    \/ StartVoiceQuerySimple
    \/ \E outcome \in Outcomes, phrase \in Queries : TranscribeSimple(outcome, phrase)
    \/ Finish

Spec == Init /\ [][Next]_vars

-----------------------------------------------------------------------------
(* The orchestrator's health aggregation *)

NextHealth ==
    \/ StartHealthCheck
    \/ ProbeStart
    \/ \E outcome \in ProbeOutcomes : ProbeEnd(outcome)
    \/ FinishHealthCheck
    \/ health_pc = "idle" /\ RestartVectorDatabase

SpecHealth == Init /\ [][NextHealth]_vars

-----------------------------------------------------------------------------
(* Claims *)

\* the outcomes of the request's calls to an endpoint so far
OutcomesOf(service, endpoint) ==
    {calls[i].outcome : i \in {j \in DOMAIN calls :
        calls[j].service = service /\ calls[j].endpoint = endpoint}}

\* every call of the request other than those to the endpoint answered 200
OthersOk(service, endpoint) ==
    \A i \in DOMAIN calls :
        (calls[i].service # service \/ calls[i].endpoint # endpoint)
            => calls[i].outcome = "ok"

TextDone == pc = "done" /\ request.kind = "text"

\* C1: a text query whose list-listings call failed (a non-success status, or a
\* network error or timeout), every other call answering, ends in a success
\* response with empty matching_properties and a non-empty answer.
C1_ListingStoreFailureAbsorbed ==
    (/\ TextDone
     /\ OutcomesOf("web_scraper", "/properties") \cap {"http_error", "net_error"} # {}
     /\ OthersOk("web_scraper", "/properties"))
    => /\ response.status = 200
       /\ response.matching_properties = <<>>
       /\ response.answer # ""

\* C2: a text query whose Response Generator call failed (a non-success status,
\* or a network error or timeout), every other call answering, ends in a
\* success response whose answer is the fixed apology.
C2_ResponseGeneratorFailureAbsorbed ==
    (/\ TextDone
     /\ OutcomesOf("llm_integration", "/process-query") \cap {"http_error", "net_error"} # {}
     /\ OthersOk("llm_integration", "/process-query"))
    => /\ response.status = 200
       /\ response.answer = Apology

\* C3: a text query whose SearchByText call failed (a non-success status, or a
\* network error or timeout), every other call answering, still calls the
\* Response Generator and ends in a success response with empty
\* matching_properties and empty similar_properties.
C3_SearchFailureAbsorbed ==
    (/\ TextDone
     /\ OutcomesOf("vector_database", "/search") \cap {"http_error", "net_error"} # {}
     /\ OthersOk("vector_database", "/search"))
    => /\ response.status = 200
       /\ OutcomesOf("llm_integration", "/process-query") # {}
       /\ response.matching_properties = <<>>
       /\ response.similar_properties = <<>>

NonIncreasing(results) ==
    \A i \in 1..(Len(results) - 1) : results[i].similarity >= results[i + 1].similarity

\* C4: every answer of SearchByText to a limit >= 0 is a success with at most
\* limit entries, in non-increasing order of similarity, with the model loaded
\* or not.
C4_SearchBoundedAndSorted ==
    (index_response.op = "search" /\ index_response.limit >= 0)
    => /\ index_response.status = 200
       /\ Len(index_response.body) <= index_response.limit
       /\ NonIncreasing(index_response.body)

\* C4 witness: a search over three stored records with limit 2, answered by the
\* model with two entries of different similarity
C4_Witness ==
    /\ index_response.op = "search"
    /\ index_response.limit = 2
    /\ Len(embeddings) = 3
    /\ Len(index_response.body) = 2
    /\ index_response.body[1].text \in MockTitles
    /\ index_response.body[1].similarity > index_response.body[2].similarity

\* C5: no entry of a successful answer of SearchBySimilarListing(L, limit), for
\* a listing L with an embedding record, has listing identifier L, with the
\* model loaded or not.
C5_SimilarExcludesSelf ==
    (/\ index_response.op = "similarity"
     /\ index_response.limit >= 0
     /\ index_response.status = 200
     /\ RowsOf(embeddings, index_response.property_id) # <<>>)
    => \A i \in DOMAIN index_response.body :
          index_response.body[i].property_id # index_response.property_id

\* C6: the similar_properties of every successful text-query response has at
\* most 5 entries, over all expanded matches together.
C6_SimilarAtMostFive ==
    (TextDone /\ response.status = 200) => Len(response.similar_properties) <= 5

\* C6 witness: both top matches were expanded, the two expansions together
\* joined more than 5 listings, and the response was returned
C6_Witness ==
    /\ TextDone
    /\ response.status = 200
    /\ Cardinality({i \in DOMAIN calls : calls[i].endpoint = "/similarity"}) = 2
    /\ Len(similar_properties) > 5
    /\ Len(response.similar_properties) = 5

\* C7: a successful text-query response to a request with include_similar
\* false has an empty similar_properties, however many matches were joined.
C7_NoSimilarUnlessAsked ==
    (TextDone /\ response.status = 200 /\ ~request.include_similar)
    => response.similar_properties = <<>>

\* C7 witness: a request with include_similar false that joined two or more
\* matches, with listings left that an expansion would have found
C7_Witness ==
    /\ TextDone
    /\ response.status = 200
    /\ ~request.include_similar
    /\ Len(response.matching_properties) >= 2
    /\ model_loaded
    /\ Len(embeddings) >= 3

\* C8: once the upload step or the transcribe-by-file-id step of a voice query
\* has failed, the request has ended in an error, it has called no service but
\* the Speech-to-Text Stage, and its response carries no transcript.
C8_VoiceFailsWithoutPipeline ==
    (/\ request.kind = "voice"
     /\ \E i \in DOMAIN calls :
           calls[i].service = "audio_transcription" /\ calls[i].outcome # "ok")
    => /\ pc = "done"
       /\ response.status = 500
       /\ response.transcription = ""
       /\ response.answer = ""
       /\ \A i \in DOMAIN calls : calls[i].service = "audio_transcription"

\* C8 witness: the upload answered and the transcribe-by-file-id step answered
\* with a non-success status
C8_Witness ==
    /\ request.kind = "voice"
    /\ pc = "done"
    /\ Len(calls) = 2
    /\ calls[1].outcome = "ok"
    /\ calls[2].endpoint = "/transcribe-file"
    /\ calls[2].outcome = "http_error"

Dependencies == {services[i] : i \in DOMAIN services}

\* the outcomes of the ended probes of a dependency
ProbeOutcomesOf(service) ==
    {probe_log[i].outcome : i \in {j \in DOMAIN probe_log :
        probe_log[j].ev = "end" /\ probe_log[j].service = service}}

\* C9: the map CheckHealth returns has one entry per dependency and its own,
\* and each dependency's entry is fixed by that dependency's outcome alone:
\* "unreachable" with the error text after an error or timeout, "unhealthy"
\* after a non-success status, the dependency's own answer otherwise.
C9_HealthMapComplete ==
    health_pc = "done" =>
        /\ DOMAIN service_status = Dependencies \cup {"rag_service"}
        /\ service_status["rag_service"].status = "healthy"
        /\ \A d \in Dependencies :
              /\ Cardinality(ProbeOutcomesOf(d)) = 1
              /\ \A o \in ProbeOutcomesOf(d) :
                    /\ o.kind = "net_error" =>
                          /\ service_status[d].status = "unreachable"
                          /\ service_status[d].error = o.text
                    /\ o.kind = "http_error" => service_status[d].status = "unhealthy"
                    /\ o.kind = "ok" => service_status[d] = dependency_health(d)

\* C9 witness: a finished check in which the first dependency timed out, the
\* second answered with a non-success status and the last was healthy
C9_Witness ==
    /\ health_pc = "done"
    /\ service_status["web_scraper"].status = "unreachable"
    /\ service_status["audio_transcription"].status = "unhealthy"
    /\ service_status["llm_integration"].status = "healthy"

\* C10: every health probe is started before any probe has completed or timed
\* out: no end of a probe precedes the start of another in the order of events.
C10_ProbesStartedTogether ==
    \A i, j \in DOMAIN probe_log :
        (i < j /\ probe_log[i].ev = "end") => probe_log[j].ev # "start"


\* a step in which the index answers a client, the model not being loaded
AnswersWithoutModel(op) ==
    /\ ~model_loaded
    /\ index_response' # index_response
    /\ index_response'.op = op

\* C11: while the embedding model is not loaded the set of stored embedding
\* records never changes, and every answer to Embed is the model-unavailable
\* condition (503) with no record in it.
C11_EmbedFailsWithoutModel ==
    [][/\ ~model_loaded => embeddings' = embeddings
       /\ AnswersWithoutModel("embed") =>
             /\ index_response'.status = 503
             /\ index_response'.body = <<>>]_vars

\* C11 witness: Embed was refused with 503 while records written earlier, with
\* the model loaded, are stored
C11_Witness ==
    /\ ~model_loaded
    /\ index_response.op = "embed"
    /\ index_response.status = 503
    /\ Len(embeddings) >= 1

\* the first n entries of the fixed fallback result set of SearchByText
FallbackPrefix(n) ==
    SubSeq(<< [property_id |-> 1, text |-> "3-bedroom villa with swimming pool",
               similarity |-> 95],
              [property_id |-> 2, text |-> "Luxury apartment in Downtown Dubai",
               similarity |-> 87],
              [property_id |-> 3, text |-> "Modern villa in Dubai Hills Estate",
               similarity |-> 82] >>, 1, IF n < 3 THEN n ELSE 3)

\* C12: while the embedding model is not loaded every answer of SearchByText is
\* a success, and for a limit >= 0 it is the fixed fallback result set cut to
\* the limit, whatever the query and the stored records.
C12_SearchFallsBackWithoutModel ==
    [][AnswersWithoutModel("search") =>
          /\ index_response'.status = 200
          /\ index_response'.limit >= 0 =>
                index_response'.body = FallbackPrefix(index_response'.limit)]_vars

\* C12 witness: a search with limit 2 answered with the first two fallback
\* entries while records are stored
C12_Witness ==
    /\ ~model_loaded
    /\ index_response.op = "search"
    /\ index_response.limit = 2
    /\ Len(embeddings) >= 2
    /\ Len(index_response.body) = 2
    /\ index_response.body[1].text = "3-bedroom villa with swimming pool"

\* C13: every answer of SearchBySimilarListing for a listing with no embedding
\* record is the not-found condition (404) with no entries, with the model
\* loaded or not.
C13_SimilarNotFoundWithoutRecord ==
    (/\ index_response.op = "similarity"
     /\ RowsOf(embeddings, index_response.property_id) = <<>>)
    => /\ index_response.status = 404
       /\ index_response.body = <<>>

\* C13 witness: not-found for a listing without a record while the model is
\* not loaded and other listings have records
C13_Witness ==
    /\ ~model_loaded
    /\ index_response.op = "similarity"
    /\ index_response.limit >= 1
    /\ index_response.status = 404
    /\ Len(embeddings) >= 1
    /\ RowsOf(embeddings, index_response.property_id) = <<>>


\* the complete response of a text query: every field of QueryResponse
\* (processing_time, a clock reading, is not part of the state)
CompleteTextResponse ==
    /\ response.status = 200
    /\ response.query = request.query
    /\ response.answer \in {VillaAnswer, GenericAnswer, Apology}
    /\ response.matching_properties = matching_properties
    /\ Len(response.similar_properties) <= Len(similar_properties)
    /\ response.detail = NoDetail

\* the pipeline error of a text query: HTTP 500 naming the call that raised,
\* and nothing of the composite response
TextPipelineError ==
    /\ response.status = 500
    /\ response.detail.prefix = "Error processing query"
    /\ response.detail.cause = calls[Len(calls)]
    /\ response.detail.cause.outcome = "net_error"
    /\ response.query = "" /\ response.answer = ""
    /\ response.matching_properties = <<>> /\ response.similar_properties = <<>>

\* C14: a text query sends nothing before it ends, ends as soon as one of its
\* calls raises, and ends in exactly one of a complete response and an HTTP 500
\* pipeline error carrying the description of the error that was raised.
C14_CompleteOrPipelineError ==
    request.kind = "text" =>
        /\ pc # "done" => response = NoResponse
        /\ (\E i \in DOMAIN calls : calls[i].outcome = "net_error")
              => pc = "done" /\ TextPipelineError
        /\ pc = "done" => /\ CompleteTextResponse \/ TextPipelineError
                          /\ ~(CompleteTextResponse /\ TextPipelineError)

\* C14 witness: the second similarity call raised after matches, an answer and
\* similar listings had been gathered, and the request ended in the error
C14_Witness ==
    /\ TextDone
    /\ response.status = 500
    /\ Len(calls) = 5
    /\ matching_properties # <<>>
    /\ similar_properties # <<>>
    /\ llm_result # ""


\* the identifiers of the listings fetched at step 1
FetchedIds == {properties[i].id : i \in DOMAIN properties}

\* the fetched listing with an identifier (identifiers are unique in the store)
FetchedListing(id) == CHOOSE p \in {properties[i] : i \in DOMAIN properties} : p.id = id

\* matches is, in order, one entry for each of the results whose identifier is
\* among the fetched listings, with that listing's fields and the result's score
JoinedFrom(matches, results) ==
    LET resolved == SelectSeq(results, LAMBDA r : r.property_id \in FetchedIds)
    IN  /\ Len(matches) = Len(resolved)
        /\ \A i \in DOMAIN resolved :
              /\ matches[i].id = resolved[i].property_id
              /\ matches[i].title = FetchedListing(resolved[i].property_id).title
              /\ matches[i].similarity_score = resolved[i].similarity

\* the request has got past its search step
SearchAnswered ==
    OutcomesOf("vector_database", "/search") \cap {"ok", "http_error"} # {}

\* C15: once the search step has answered, matching_properties holds, in the
\* rank order of the search results, exactly one entry for each result whose
\* identifier is in the collection fetched at step 1, with that result's
\* similarity; results with other identifiers are dropped, no error is raised
\* by the join, and a successful response returns that list.
C15_JoinKeepsResolvedInOrder ==
    SearchAnswered =>
        /\ JoinedFrom(matching_properties, search_results)
        /\ pc = "llm" => response = NoResponse
        /\ (pc = "done" /\ response.status = 200)
              => response.matching_properties = matching_properties

\* C15 witness: with the model loaded, the search returned a listing that was
\* scraped and embedded after the step-1 fetch, and a fetched one; the first
\* was dropped and the second joined
C15_Witness ==
    /\ pc = "llm"
    /\ model_loaded
    /\ matching_properties # <<>>
    /\ \E i \in DOMAIN search_results :
          /\ search_results[i].property_id \notin FetchedIds
          /\ \E k \in DOMAIN properties_db :
                properties_db[k].id = search_results[i].property_id
    /\ \E i, k \in DOMAIN search_results :
          /\ i < k
          /\ search_results[i].property_id \notin FetchedIds
          /\ search_results[k].property_id \in FetchedIds


\* the similarity calls the request has made
SimilarityCalls == {i \in DOMAIN calls : calls[i].endpoint = "/similarity"}

\* a step in which a similarity call of the request comes back without raising
SimilarityAnswers ==
    /\ pc = "similar"
    /\ Len(calls') = Len(calls) + 1
    /\ calls'[Len(calls')].endpoint = "/similarity"
    /\ calls'[Len(calls')].outcome # "net_error"

\* the joined match the next similarity call is for: #1, then #2
NextExpanded == matching_properties[Cardinality(SimilarityCalls) + 1]

\* the next similarity call is answered with a status other than 200
SimilarityRefused ==
    \/ calls'[Len(calls')].outcome = "http_error"
    \/ find_similar_properties(NextExpanded.id, 3).status # 200

\* what a step appends to similar_properties
Appended ==
    SubSeq(similar_properties', Len(similar_properties) + 1, Len(similar_properties'))

FirstFive(seq) == SubSeq(seq, 1, IF Len(seq) < 5 THEN Len(seq) ELSE 5)

\* C16: at most the top 2 joined matches are expanded, #1 then #2; each answered
\* expansion appends its joined results in their returned rank order to what
\* the earlier one gave; and the similar_properties of a successful text-query
\* response is the first 5 entries of that concatenation.
C16_SimilarInExpansionOrder ==
    /\ [](/\ Cardinality(SimilarityCalls) <= 2
          /\ Cardinality(SimilarityCalls) <= Len(matching_properties)
          /\ (TextDone /\ response.status = 200) =>
                /\ response.similar_properties = FirstFive(similar_properties)
                /\ (request.include_similar /\ matching_properties # <<>>) =>
                      Cardinality(SimilarityCalls) =
                          (IF Len(matching_properties) < 2 THEN 1 ELSE 2)
                /\ ~request.include_similar => SimilarityCalls = {})
    /\ [][SimilarityAnswers =>
            /\ SubSeq(similar_properties', 1, Len(similar_properties)) = similar_properties
            /\ IF SimilarityRefused THEN Appended = <<>>
               ELSE JoinedFrom(Appended, find_similar_properties(NextExpanded.id, 3).body)]_vars

\* C16 witness: a successful response whose two expansions both joined
\* listings, the second after the first
C16_Witness ==
    /\ TextDone
    /\ response.status = 200
    /\ model_loaded
    /\ Cardinality(SimilarityCalls) = 2
    /\ Len(matching_properties) >= 3
    /\ Len(similar_properties) = 4
    /\ similar_properties[1].id = matching_properties[2].id
    /\ similar_properties[3].id = matching_properties[1].id

\* C20: a text query one of whose SearchBySimilarListing calls failed (a
\* not-found or other failure status, or a network error or timeout), every
\* other call answering, ends in a success response with the
\* matching_properties and the answer already computed.
C20_FailedExpansionIsSkipped ==
    (/\ TextDone
     /\ \/ OutcomesOf("vector_database", "/similarity") \cap {"http_error", "net_error"} # {}
        \/ \E i \in SimilarityCalls :
              /\ calls[i].outcome = "ok"
              /\ RowsOf(embeddings, matching_properties[Cardinality({j \in SimilarityCalls : j <= i})].id) = <<>>
     /\ OthersOk("vector_database", "/similarity"))
    => /\ response.status = 200
       /\ response.matching_properties = matching_properties
       /\ response.answer = llm_result

VoiceDone == pc = "done" /\ request.kind \in {"voice", "voice_simple"}

\* the text query the voice flow makes of a transcript: QueryRequest(query =
\* transcript) with the defaults
TextRequestOf(transcript) ==
    [kind |-> "text", query |-> transcript, include_similar |-> TRUE, max_results |-> 5]

\* what ProcessTextQuery returns for the transcript from the state the
\* dependencies left in the request
TextResultOf(transcript) ==
    SuccessResponse(TextRequestOf(transcript), NoVoice, llm_result, matching_properties,
                    similar_properties)

\* C17: a successful voice response (full or simplified) has query and
\* transcription equal to the transcript the Speech-to-Text Stage returned, and
\* its answer and matching_properties are those of the text query for that
\* transcript: the request run is the default text request for the transcript,
\* the answer is the Response Generator's for the transcript (the apology when
\* it failed) and the matches are the join of the search results.
C17_VoiceRunsTextFlowOnTranscript ==
    (VoiceDone /\ response.status = 200) =>
        /\ IF request.kind = "voice" THEN voice = transcribe_uploaded_file
           ELSE \E phrase \in Queries : voice = transcribe_audio(phrase)
        /\ response.query = voice.transcription
        /\ response.transcription = voice.transcription
        /\ [request EXCEPT !.kind = "text"] = TextRequestOf(voice.transcription)
        /\ response.answer = TextResultOf(voice.transcription).answer
        /\ response.matching_properties =
              TextResultOf(voice.transcription).matching_properties
        /\ response.answer =
              (IF "ok" \in OutcomesOf("llm_integration", "/process-query")
               THEN process_query(voice.transcription).response ELSE Apology)
        /\ JoinedFrom(response.matching_properties, search_results)
        /\ Len(search_results) <= 5

\* C17 witness: a successful voice response with matches and similar listings
\* found for the transcript
C17_Witness ==
    /\ VoiceDone
    /\ response.status = 200
    /\ request.kind = "voice"
    /\ response.answer = VillaAnswer
    /\ response.matching_properties # <<>>
    /\ similar_properties # <<>>
    /\ similar_properties # matching_properties

\* the most recently created embedding record of a listing
LatestRecord(property_id) ==
    LET refs == RowsOf(embeddings, property_id) IN refs[Len(refs)]

\* C18: with the model loaded, every successful answer of SearchBySimilarListing
\* to a limit >= 0 ranks the other listings' records against the most recently
\* created record of the reference listing.
C18_SimilarUsesLatestRecord ==
    [][(/\ index_response' # index_response
        /\ index_response'.op = "similarity"
        /\ index_response'.status = 200
        /\ index_response'.limit >= 0
        /\ model_loaded)
       => index_response'.body =
             PySlice(SortBySimilarity(
                         ScoreAll(RowsNotOf(embeddings, index_response'.property_id),
                                  LatestRecord(index_response'.property_id).embedding)),
                     index_response'.limit)]_vars

\* the listing identifiers of a list of joined listings
IdsOf(listings) == {listings[i].id : i \in DOMAIN listings}

\* C19: in every successful text-query response no listing identifier occurs
\* in both matching_properties and similar_properties.
C19_MatchesAndSimilarDisjoint ==
    (TextDone /\ response.status = 200) =>
        IdsOf(response.matching_properties) \cap IdsOf(response.similar_properties) = {}

====
